---- MODULE Spec2Model ----
(***************************************************************************)
(* The coordinated shutdown of cmd/graceful (run() in main.go): the main   *)
(* goroutine in ListenAndServe / g.Wait, the errgroup goroutine that waits *)
(* for a termination signal and calls httpServer.Shutdown with a 9 second  *)
(* deadline, the goroutine Shutdown starts for the registered on-shutdown  *)
(* hook (cancelFunc), and one handler goroutine per accepted request.      *)
(*                                                                         *)
(* Time is discrete: one Tick is one second and also one poll of the       *)
(* Shutdown loop (Shutdown looks at the connections, then sleeps in a      *)
(* select on ctx.Done() and its poll timer).  Steps of the program take no *)
(* time: Tick is enabled only when no step of the program is enabled.      *)
(* Arrival of signals and requests, completion of downstream calls and     *)
(* client disconnects are events of the environment and may happen at any  *)
(* time.  Every request arrives on a connection of its own; the requests   *)
(* are kept as a bag, since nothing in the program tells two requests in   *)
(* the same state apart.                                                   *)
(***************************************************************************)
EXTENDS Integers, Sequences, FiniteSets, Bags, TLC

\* ---------------------------------------------------------------- bounds
MaxReqs == 2

\* ------------------------------------------------------ program constants
ShutdownTimeout == 9
ChanCap == 1

Paths == {"cancelablerequest", "noncancelablerequest"}
Signals == {"interrupt", "terminated"}

VARIABLES
    mainPc,         \* main goroutine: "listen", "serving", "wait", "returned"
    lsResult,       \* what ListenAndServe returned: "none", "ErrServerClosed", "bindErr", "acceptErr"
    runResult,      \* what run() returned: "none", "nil", "deadline", "canceled", "closeErr", "listenErr"
    exited,         \* the process has terminated
    exitCode,
    sdPc,           \* errgroup goroutine: "recv", "call", "poll", "sleep", "done"
    sdResult,       \* what httpServer.Shutdown returned: "none", "nil", "deadline", "canceled", "closeErr"
    groupErr,       \* the errgroup's first error
    graceArmed,     \* graceFull exists and has not been released
    graceElapsed,   \* seconds since graceFull was created
    pollDue,        \* the poll timer of the Shutdown loop has fired
    hookPc,         \* goroutine of the on-shutdown hook: "idle", "spawned", "done"
    sigChan,        \* the buffered channel shutdown
    o,              \* the signal received from the channel
    rootCancelled,  \* ctx of context.WithCancel(context.Background())
    groupCancelled, \* ctx of errgroup.WithContext(ctx)
    inShutdown,     \* httpServer.inShutdown
    listener,       \* "none", "open", "closed"
    lnerr,          \* closing the listener reported an error
    req,            \* the bag of requests accepted so far: path, hangs, st, cancelled, status, atStop
    lastDone,       \* when the last handler of the drain finished: "none", "early", "late", "expired", "after"
    defers,         \* tracing entry points: the deferred calls of run() not yet run, next one first
    ran,            \* tracing entry points: the deferred calls that have run, in order
    tpCtx,          \* tracing entry points: the root context as tp.Shutdown(ctx) found it: "none", "live", "cancelled"
    bpc,            \* doHeavyProcessingConcurrent: "idle", "go1", "go2", "wait", "recv", "done"
    g1,             \* its first goroutine (delay/6): "none", "call", "decode", "ok", "err"
    g2,             \* its second goroutine (json): "none", "call", "decode", "send", "ok", "err"
    binChan,        \* the buffered channel binChan
    bGroupErr,      \* the first error its errgroup recorded, "none" if none
    bCtxDone,       \* the context of its errgroup is cancelled
    bParentDone,    \* the context it was called with is cancelled
    bVal,           \* the *binJson it returned: "none", "nil", "b"
    bErr,           \* the error it returned: "none" before it returns, "nil", or the group's error
    header,         \* deconstructXCloudTraceContext: the header, a sequence of characters
    hpc,            \* its position: "idle", "call", "returned", "panicked"
    parsed          \* the traceID, spanID and traceSampled it returned

sigVars == <<sigChan, o>>
ctxVars == <<rootCancelled, groupCancelled>>
srvVars == <<inShutdown, listener, lnerr>>
sdVars == <<sdPc, sdResult, groupErr, graceArmed, graceElapsed, pollDue>>
mainVars == <<mainPc, lsResult, runResult>>
binVars == <<bpc, g1, g2, binChan, bGroupErr, bCtxDone, bParentDone, bVal, bErr>>
hdrVars == <<header, hpc, parsed>>

\* The variables run() of the servers never touches after main has returned
\* from it, together with those of the other functions of the repository.
exitVars == <<exited, exitCode, defers, ran, tpCtx, binVars, hdrVars>>
reqVars == <<req, lastDone>>
vars == <<mainVars, exitVars, sdVars, hookPc, sigVars, ctxVars, srvVars, reqVars>>

\* The requests accepted so far, and their number.
Reqs == BagToSet(req)

nReq == BagCardinality(req)

One(r) == SetToBag({r})

\* The bag of requests with r replaced by r2.
Swap(r, r2) == (req (-) One(r)) (+) One(r2)

\* doHeavyProcessingConcurrent has not been called; no header is parsed.
BinIdle ==
    /\ bpc = "idle"
    /\ g1 = "none"
    /\ g2 = "none"
    /\ binChan = <<>>
    /\ bGroupErr = "none"
    /\ bCtxDone = FALSE
    /\ bParentDone = FALSE
    /\ bVal = "none"
    /\ bErr = "none"

\* The zero values of the named results traceID, spanID, traceSampled.
NoParse == [traceID |-> <<>>, spanID |-> <<>>, traceSampled |-> FALSE]

HdrIdle ==
    /\ header = <<>>
    /\ hpc = "idle"
    /\ parsed = NoParse

\* run() of the server has built its server, channel and group and is about to
\* listen.
ServerStart ==
    /\ mainPc = "listen"
    /\ lsResult = "none"
    /\ runResult = "none"
    /\ exited = FALSE
    /\ exitCode = 0
    /\ sdPc = "recv"
    /\ sdResult = "none"
    /\ groupErr = "none"
    /\ graceArmed = FALSE
    /\ graceElapsed = 0
    /\ pollDue = FALSE
    /\ hookPc = "idle"
    /\ sigChan = <<>>
    /\ o = "none"
    /\ rootCancelled = FALSE
    /\ groupCancelled = FALSE
    /\ inShutdown = FALSE
    /\ listener = "none"
    /\ lnerr = FALSE
    /\ req = EmptyBag
    /\ lastDone = "none"
    /\ defers = <<>>
    /\ ran = <<>>
    /\ tpCtx = "none"

Init ==
    /\ ServerStart
    /\ BinIdle
    /\ HdrIdle

\* ------------------------------------------------------------- contexts

\* (variant: BaseContext returns a context unrelated to ctx)
BaseContext_fresh == "background"

\* The context BaseContext hands to the server.  The closure returns the
\* variable ctx, which errgroup.WithContext has reassigned by the time the
\* server calls it: the base context is the errgroup's context.
BaseContext == "group"

BaseCancelledWhen(rootC, groupC) ==
    CASE BaseContext = "root" -> rootC
      [] BaseContext = "group" -> groupC
      [] OTHER -> FALSE

\* (variant: a request context does not follow its parent's cancellation)
WithCancelled_detached(r) == r

\* Cancellation of the base context reaches every request context derived
\* from it.
WithCancelled(r) == [r EXCEPT !.cancelled = TRUE]

Propagate(B, baseC) == IF baseC THEN BagOfAll(WithCancelled, B) ELSE B

\* (variant: a second invocation of cancelFunc undoes the first)
cancelFunc_toggle ==
    /\ rootCancelled' = ~rootCancelled
    /\ groupCancelled' = ~rootCancelled
    /\ req' = Propagate(req, BaseCancelledWhen(TRUE, TRUE))

\* cancelFunc of context.WithCancel: cancels ctx and its descendants.
cancelFunc ==
    /\ rootCancelled' = TRUE
    /\ groupCancelled' = TRUE
    /\ req' = Propagate(req, BaseCancelledWhen(TRUE, TRUE))

\* The errgroup's cancel: cancels the group's context and its descendants.
groupCancel(B) ==
    /\ groupCancelled' = TRUE
    /\ rootCancelled' = rootCancelled
    /\ req' = Propagate(B, BaseCancelledWhen(rootCancelled, TRUE))

\* (variant: graceFull is derived from ctx)
GraceParentCancelled_ctx == groupCancelled

\* graceFull is context.WithTimeout(context.Background(), 9s): its parent is
\* never cancelled.
GraceParentCancelled == FALSE

\* (variant: the timer fires a second early)
GraceExpired_early == graceElapsed + 1 >= ShutdownTimeout

\* (variant: graceFull has no deadline)
GraceExpired_never == FALSE

GraceExpired == graceElapsed >= ShutdownTimeout

GraceDone == graceArmed /\ (GraceExpired \/ GraceParentCancelled)

GraceErr == IF GraceExpired THEN "deadline" ELSE "canceled"

\* ------------------------------------------------------------ signals

\* (variant: a signal delivered during the drain restarts the deadline)
Signal_restarts(s) ==
    /\ ~exited
    /\ sigChan' = IF Len(sigChan) < ChanCap THEN Append(sigChan, s) ELSE sigChan
    /\ graceElapsed' = 0
    /\ UNCHANGED <<sdPc, sdResult, groupErr, graceArmed, pollDue>>
    /\ UNCHANGED <<o, mainVars, exitVars, hookPc, ctxVars, srvVars, reqVars>>

\* A termination signal is delivered: signal.Notify sends without blocking,
\* so the signal is dropped when the channel is full.
Signal(s) ==
    /\ ~exited
    /\ sigChan' = IF Len(sigChan) < ChanCap THEN Append(sigChan, s) ELSE sigChan
    /\ UNCHANGED <<o, mainVars, exitVars, sdVars, hookPc, ctxVars, srvVars, reqVars>>

\* ------------------------------------------------- the errgroup goroutine

\* (variant: the goroutine cancels the root context as soon as it has the
\* signal, before it calls Shutdown)
SdReceive_cancels ==
    /\ ~exited
    /\ sdPc = "recv"
    /\ sigChan # <<>>
    /\ o' = Head(sigChan)
    /\ sigChan' = Tail(sigChan)
    /\ sdPc' = "call"
    /\ cancelFunc
    /\ UNCHANGED <<sdResult, groupErr, graceArmed, graceElapsed, pollDue>>
    /\ UNCHANGED <<mainVars, exitVars, hookPc, srvVars, lastDone>>

\* (variant: on os.Interrupt the goroutine returns without calling Shutdown)
SdReceive_branches ==
    /\ ~exited
    /\ sdPc = "recv"
    /\ sigChan # <<>>
    /\ o' = Head(sigChan)
    /\ sigChan' = Tail(sigChan)
    /\ sdPc' = IF Head(sigChan) = "interrupt" THEN "done" ELSE "call"
    /\ sdResult' = IF Head(sigChan) = "interrupt" THEN "nil" ELSE sdResult
    /\ UNCHANGED <<groupErr, graceArmed, graceElapsed, pollDue>>
    /\ UNCHANGED <<mainVars, exitVars, hookPc, ctxVars, srvVars, reqVars>>

\* (variant: the receive does not wait for a signal to be in the channel)
SdReceive_nowait ==
    /\ ~exited
    /\ sdPc = "recv"
    /\ IF sigChan # <<>>
       THEN o' = Head(sigChan) /\ sigChan' = Tail(sigChan)
       ELSE UNCHANGED <<o, sigChan>>
    /\ sdPc' = "call"
    /\ UNCHANGED <<sdResult, groupErr, graceArmed, graceElapsed, pollDue>>
    /\ UNCHANGED <<mainVars, exitVars, hookPc, ctxVars, srvVars, reqVars>>

\* o := <-shutdown
SdReceive ==
    /\ ~exited
    /\ sdPc = "recv"
    /\ sigChan # <<>>
    /\ o' = Head(sigChan)
    /\ sigChan' = Tail(sigChan)
    /\ sdPc' = "call"
    /\ UNCHANGED <<sdResult, groupErr, graceArmed, graceElapsed, pollDue>>
    /\ UNCHANGED <<mainVars, exitVars, hookPc, ctxVars, srvVars, reqVars>>

\* (variant: no hook is registered)
HookAfterShutdown_none == hookPc

\* RegisterOnShutdown(cancelFunc): Shutdown starts one goroutine per hook.
HookAfterShutdown == "spawned"

\* (variant: the listener is left open)
ListenerAfterShutdown_open == listener

\* Shutdown closes the listeners.
ListenerAfterShutdown == IF listener = "open" THEN "closed" ELSE listener

\* (bookkeeping: the request was in flight when Shutdown was invoked)
MarkAtStop(r) == [r EXCEPT !.atStop = (r.st = "downstream")]

\* graceFull is created and httpServer.Shutdown(graceFull) begins: it marks
\* the server as shutting down, closes the listener and starts the hooks.
SdShutdownBegin(closeFails) ==
    /\ ~exited
    /\ sdPc = "call"
    /\ graceArmed' = TRUE
    /\ graceElapsed' = 0
    /\ inShutdown' = TRUE
    /\ listener' = ListenerAfterShutdown
    /\ lnerr' = (closeFails /\ listener = "open")
    /\ hookPc' = HookAfterShutdown
    /\ sdPc' = "poll"
    /\ pollDue' = FALSE
    /\ req' = BagOfAll(MarkAtStop, req)
    /\ UNCHANGED <<sdResult, groupErr, mainVars, exitVars, sigVars, ctxVars, lastDone>>

\* The goroutine started by Shutdown runs the hook: cancelFunc().
OnShutdownHook ==
    /\ ~exited
    /\ hookPc = "spawned"
    /\ hookPc' = "done"
    /\ cancelFunc
    /\ UNCHANGED <<lastDone, mainVars, exitVars, sdVars, sigVars, srvVars>>

\* Shutdown returns res and leaves the requests as B; the goroutine returns
\* res wrapped (or nil), its deferred cancel releases graceFull, and the
\* errgroup records a non-nil error and cancels its context.
SdReturn(res, B) ==
    /\ sdResult' = res
    /\ sdPc' = "done"
    /\ graceArmed' = FALSE
    /\ pollDue' = FALSE
    /\ UNCHANGED <<graceElapsed, lastDone>>
    /\ IF res # "nil"
       THEN groupErr' = res /\ groupCancel(B)
       ELSE req' = B /\ UNCHANGED <<groupErr, ctxVars>>

\* (variant: a connection whose handler has finished still counts as active)
closeIdleConns_strict == nReq = 0

\* closeIdleConns of the Shutdown loop: true when no connection is active.
closeIdleConns == \A r \in Reqs : r.st # "downstream"

\* One pass of the Shutdown loop: when no connection is active and Serve
\* has let go of the listener, Shutdown returns the listener's close error
\* (nil when there was none); otherwise it goes to sleep in the select.
SdPoll ==
    /\ ~exited
    /\ sdPc = "poll"
    /\ IF closeIdleConns /\ mainPc # "serving"
       THEN SdReturn(IF lnerr THEN "closeErr" ELSE "nil", req)
       ELSE /\ sdPc' = "sleep"
            /\ pollDue' = FALSE
            /\ UNCHANGED <<sdResult, groupErr, graceArmed, graceElapsed, ctxVars, reqVars>>
    /\ UNCHANGED <<mainVars, exitVars, hookPc, sigVars, srvVars>>

\* (variant: Shutdown closes the active connections when it gives up, as
\* Close would)
Closed(r) ==
    IF r.st = "downstream"
    THEN [r EXCEPT !.st = "done", !.cancelled = TRUE, !.hangs = FALSE]
    ELSE r

ReqsAfterGiveUp_closed == BagOfAll(Closed, req)

\* The connections as Shutdown leaves them when it gives up at ctx.Done():
\* it closes none of the active ones.
ReqsAfterGiveUp == req

\* select: ctx.Done() of graceFull, and Shutdown returns ctx.Err()
SdSelectDone ==
    /\ ~exited
    /\ sdPc = "sleep"
    /\ GraceDone
    /\ SdReturn(GraceErr, ReqsAfterGiveUp)
    /\ UNCHANGED <<mainVars, exitVars, hookPc, sigVars, srvVars>>

\* select: the poll timer
SdSelectTimer ==
    /\ ~exited
    /\ sdPc = "sleep"
    /\ pollDue
    /\ sdPc' = "poll"
    /\ pollDue' = FALSE
    /\ UNCHANGED <<sdResult, groupErr, graceArmed, graceElapsed>>
    /\ UNCHANGED <<mainVars, exitVars, hookPc, sigVars, ctxVars, srvVars, reqVars>>

\* ------------------------------------------------------ the main goroutine

\* run() returns result; the deferred cancelFunc() runs.
RunReturn(result) ==
    /\ runResult' = result
    /\ mainPc' = "returned"
    /\ cancelFunc

\* (variant: ListenAndServe does not look at the shutdown flag)
ListenAndServe_unchecked(bindFails) ==
    /\ ~exited
    /\ mainPc = "listen"
    /\ IF bindFails
       THEN /\ lsResult' = "bindErr"
            /\ RunReturn("listenErr")
            /\ UNCHANGED listener
       ELSE /\ lsResult' = "none"
            /\ mainPc' = "serving"
            /\ listener' = "open"
            /\ UNCHANGED <<runResult, ctxVars, req>>
    /\ UNCHANGED <<inShutdown, lnerr, lastDone, exitVars, sdVars, hookPc, sigVars>>

\* httpServer.ListenAndServe() is entered: it returns ErrServerClosed when
\* the server is already shutting down, fails to bind (and run() returns the
\* error without g.Wait()), or starts to serve.
ListenAndServe(bindFails) ==
    /\ ~exited
    /\ mainPc = "listen"
    /\ IF inShutdown
       THEN /\ lsResult' = "ErrServerClosed"
            /\ mainPc' = "wait"
            /\ UNCHANGED <<runResult, listener, ctxVars, req>>
       ELSE IF bindFails
            THEN /\ lsResult' = "bindErr"
                 /\ RunReturn("listenErr")
                 /\ UNCHANGED listener
            ELSE /\ lsResult' = "none"
                 /\ mainPc' = "serving"
                 /\ listener' = "open"
                 /\ UNCHANGED <<runResult, ctxVars, req>>
    /\ UNCHANGED <<inShutdown, lnerr, lastDone, exitVars, sdVars, hookPc, sigVars>>

\* The accept loop takes connections while the listener is open.
CanAccept == mainPc = "serving" /\ listener = "open"

\* The handler as it starts: its request context is derived from the base
\* context, and it blocks in http.DefaultClient.Do.
NewReq(p, h) ==
    [path |-> p, hangs |-> h, st |-> "downstream",
     cancelled |-> BaseCancelledWhen(rootCancelled, groupCancelled),
     status |-> 0, atStop |-> FALSE]

\* A request for path p is accepted and dispatched to its handler; h tells
\* whether its downstream call would ever return by itself.
Accept(p, h) ==
    /\ ~exited
    /\ CanAccept
    /\ nReq < MaxReqs
    /\ req' = req (+) One(NewReq(p, h))
    /\ UNCHANGED lastDone
    /\ UNCHANGED <<mainVars, exitVars, sdVars, hookPc, sigVars, ctxVars, srvVars>>

\* (variant: after an error of ListenAndServe run() goes on to g.Wait())
AcceptError_waits ==
    /\ ~exited
    /\ CanAccept
    /\ lsResult' = "acceptErr"
    /\ listener' = "closed"
    /\ mainPc' = "wait"
    /\ UNCHANGED <<runResult, ctxVars, req>>
    /\ UNCHANGED <<inShutdown, lnerr, lastDone, exitVars, sdVars, hookPc, sigVars>>

\* Accept fails for a reason other than the shutdown: Serve closes the
\* listener, ListenAndServe returns the error and run() returns it wrapped.
AcceptError ==
    /\ ~exited
    /\ CanAccept
    /\ lsResult' = "acceptErr"
    /\ listener' = "closed"
    /\ RunReturn("listenErr")
    /\ UNCHANGED <<inShutdown, lnerr, lastDone, exitVars, sdVars, hookPc, sigVars>>

\* (variant: ListenAndServe returns only when no handler is running)
ServeReturn_drained ==
    /\ ~exited
    /\ mainPc = "serving"
    /\ listener = "closed"
    /\ \A r \in Reqs : r.st # "downstream"
    /\ lsResult' = "ErrServerClosed"
    /\ mainPc' = "wait"
    /\ UNCHANGED <<runResult, exitVars, sdVars, hookPc, sigVars, ctxVars, srvVars, reqVars>>

\* Shutdown has closed the listener: ListenAndServe returns ErrServerClosed
\* and the main goroutine goes on to g.Wait().
ServeReturn ==
    /\ ~exited
    /\ mainPc = "serving"
    /\ listener = "closed"
    /\ lsResult' = "ErrServerClosed"
    /\ mainPc' = "wait"
    /\ UNCHANGED <<runResult, exitVars, sdVars, hookPc, sigVars, ctxVars, srvVars, reqVars>>

\* (variant: the error of the goroutine is dropped)
WaitResult_nil == "nil"

\* What g.Wait() returns: the group's first error.
WaitResult == IF groupErr = "none" THEN "nil" ELSE groupErr

\* (variant: g.Wait() does not wait for the goroutine of the group)
Wait_nowait ==
    /\ ~exited
    /\ mainPc = "wait"
    /\ RunReturn(WaitResult)
    /\ UNCHANGED <<lsResult, lastDone, exitVars, sdVars, hookPc, sigVars, srvVars>>

\* g.Wait() returns once the goroutine of the group has returned.
Wait ==
    /\ ~exited
    /\ mainPc = "wait"
    /\ sdPc = "done"
    /\ RunReturn(WaitResult)
    /\ UNCHANGED <<lsResult, lastDone, exitVars, sdVars, hookPc, sigVars, srvVars>>

\* main: log.Fatalf (exit status 1) on an error of run(), else return.
MainExit ==
    /\ ~exited
    /\ mainPc = "returned"
    /\ exited' = TRUE
    /\ exitCode' = IF runResult = "nil" THEN 0 ELSE 1
    /\ UNCHANGED <<defers, ran, tpCtx, binVars, hdrVars>>
    /\ UNCHANGED <<mainVars, sdVars, hookPc, sigVars, ctxVars, srvVars, reqVars>>

\* The final log lines.  The goroutine logs "server has shutdown gracefully"
\* when Shutdown has returned nil; main logs the fatal "run(): ..." line when
\* run() has returned an error, and exits.
LoggedGraceful == sdPc = "done" /\ sdResult = "nil"

LoggedFatal == exited /\ runResult # "nil"

\* ------------------------------------------------------------- handlers

\* (variant: both handlers build the downstream request on request.Context())
UsesRequestCtx_both(p) == TRUE

\* /cancelablerequest builds its downstream request on request.Context(),
\* /noncancelablerequest on context.Background().
UsesRequestCtx(p) == p = "cancelablerequest"

\* When a handler finishes, relative to graceFull's deadline: at least one
\* poll interval before it ("early"), less than that ("late"), not before it
\* ("expired"), or after Shutdown has returned ("after").
DrainTime ==
    IF sdPc = "done" THEN "after"
    ELSE IF ~graceArmed THEN lastDone
    ELSE IF graceElapsed + 1 < ShutdownTimeout THEN "early"
    ELSE IF graceElapsed < ShutdownTimeout THEN "late"
    ELSE "expired"

\* The handler returns, and the server cancels the request's context.
Finished(r, code) ==
    [r EXCEPT !.st = "done", !.status = code, !.cancelled = TRUE, !.hangs = FALSE]

\* (variant: a handler that answers 500 reports its error to the group)
Finish_reports(r, code) ==
    /\ req' = Swap(r, Finished(r, code))
    /\ lastDone' = DrainTime
    /\ groupErr' = IF code = 500 /\ groupErr = "none" THEN "handlerErr" ELSE groupErr
    /\ UNCHANGED <<sdPc, sdResult, graceArmed, graceElapsed, pollDue>>
    /\ UNCHANGED <<mainVars, exitVars, hookPc, sigVars, ctxVars, srvVars>>

Finish(r, code) ==
    /\ req' = Swap(r, Finished(r, code))
    /\ lastDone' = DrainTime
    /\ UNCHANGED <<mainVars, exitVars, sdVars, hookPc, sigVars, ctxVars, srvVars>>

\* http.DefaultClient.Do returns by itself, with a response (handler writes
\* 200) or with an error (handler writes 500).
DownstreamReturn(r, ok) ==
    /\ ~exited
    /\ r.st = "downstream"
    /\ ~r.hangs
    /\ Finish(r, IF ok THEN 200 ELSE 500)

\* http.DefaultClient.Do returns "context canceled": the context of the
\* downstream request is cancelled.
DownstreamCancelled(r) ==
    /\ ~exited
    /\ r.st = "downstream"
    /\ UsesRequestCtx(r.path)
    /\ r.cancelled
    /\ Finish(r, 500)

\* (variant: cancelling a request's context cancels the base context too)
ClientDisconnect_cancelsBase(r) ==
    /\ ~exited
    /\ r.st = "downstream"
    /\ ~r.cancelled
    /\ groupCancelled' = TRUE
    /\ rootCancelled' = rootCancelled
    /\ req' = BagOfAll(WithCancelled, req)
    /\ UNCHANGED <<lastDone, mainVars, exitVars, sdVars, hookPc, sigVars, srvVars>>

\* The client goes away: the server cancels the request's context.
ClientDisconnect(r) ==
    /\ ~exited
    /\ r.st = "downstream"
    /\ ~r.cancelled
    /\ req' = Swap(r, WithCancelled(r))
    /\ UNCHANGED <<lastDone, mainVars, exitVars, sdVars, hookPc, sigVars, ctxVars, srvVars>>

\* ----------------------------------------------------------------- time

\* A step of the program is enabled.
Urgent ==
    \/ sdPc = "recv" /\ sigChan # <<>>
    \/ sdPc \in {"call", "poll"}
    \/ sdPc = "sleep" /\ (pollDue \/ GraceDone)
    \/ hookPc = "spawned"
    \/ mainPc \in {"listen", "returned"}
    \/ mainPc = "serving" /\ listener = "closed"
    \/ mainPc = "wait" /\ sdPc = "done"
    \/ \E r \in Reqs : /\ r.st = "downstream"
                       /\ UsesRequestCtx(r.path)
                       /\ r.cancelled

\* One second passes: graceFull's timer advances and the poll timer fires.
Tick ==
    /\ ~exited
    /\ ~Urgent
    /\ graceArmed
    /\ graceElapsed' = IF graceElapsed < ShutdownTimeout THEN graceElapsed + 1 ELSE graceElapsed
    /\ pollDue' = (sdPc = "sleep")
    /\ UNCHANGED <<sdPc, sdResult, groupErr, graceArmed>>
    /\ UNCHANGED <<mainVars, exitVars, hookPc, sigVars, ctxVars, srvVars, reqVars>>

Step ==
    \/ SdReceive
    \/ \E e \in BOOLEAN : SdShutdownBegin(e)
    \/ OnShutdownHook
    \/ SdPoll
    \/ SdSelectDone
    \/ SdSelectTimer
    \/ \E b \in BOOLEAN : ListenAndServe(b)
    \/ ServeReturn
    \/ Wait
    \/ MainExit
    \/ \E r \in Reqs : DownstreamCancelled(r)

Env ==
    \/ \E s \in Signals : Signal(s)
    \/ \E p \in Paths, h \in BOOLEAN : Accept(p, h)
    \/ AcceptError
    \/ \E r \in Reqs, ok \in BOOLEAN : DownstreamReturn(r, ok)
    \/ \E r \in Reqs : ClientDisconnect(r)

Next == Step \/ Env \/ Tick

Spec == Init /\ [][Next]_vars

\* The steps of the program are taken and time passes.
LiveSpec == Spec /\ WF_vars(Step) /\ WF_vars(Tick)

TypeOK ==
    /\ mainPc \in {"listen", "serving", "wait", "returned"}
    /\ lsResult \in {"none", "ErrServerClosed", "bindErr", "acceptErr"}
    /\ runResult \in {"none", "nil", "deadline", "canceled", "closeErr", "listenErr"}
    /\ exited \in BOOLEAN
    /\ exitCode \in {0, 1}
    /\ sdPc \in {"recv", "call", "poll", "sleep", "done"}
    /\ sdResult \in {"none", "nil", "deadline", "canceled", "closeErr"}
    /\ groupErr \in {"none", "deadline", "canceled", "closeErr"}
    /\ graceArmed \in BOOLEAN
    /\ graceElapsed \in 0..ShutdownTimeout
    /\ pollDue \in BOOLEAN
    /\ hookPc \in {"idle", "spawned", "done"}
    /\ Len(sigChan) <= ChanCap
    /\ o \in Signals \cup {"none"}
    /\ rootCancelled \in BOOLEAN
    /\ groupCancelled \in BOOLEAN
    /\ inShutdown \in BOOLEAN
    /\ listener \in {"none", "open", "closed"}
    /\ lnerr \in BOOLEAN
    /\ IsABag(req)
    /\ nReq \in 0..MaxReqs
    /\ lastDone \in {"none", "early", "late", "expired", "after"}
    /\ defers = <<>>
    /\ ran = <<>>
    /\ tpCtx = "none"
    /\ \A r \in Reqs : r.st \in {"downstream", "done"} /\ r.path \in Paths

\* ------------------------------------------- the tracing entry points
\* run() of cmd/opentelemetry/main.go ("demo") and of the opentelemetry
\* service ("service").  Both leave BaseContext unset, so the request
\* contexts derive from context.Background(); the demo registers cancelFunc
\* as on-shutdown hook, the service registers no hook.  Both defer the
\* cancelFunc and the tracing teardown, the service also logger.Sync; the
\* deferred calls run one by one when run() returns, last registered first.

Entries == {"demo", "service"}

\* How the initialisation of run() ends.
InitResults(e) ==
    {"ok", "metadataErr", "loggerErr", "tracingErr"}
        \cup (IF e = "service" THEN {"firestoreErr"} ELSE {})

\* The deferred calls registered when the initialisation ends with f.
DefersAt(e, f) ==
    LET logger == IF e = "service" THEN <<"Sync">> ELSE <<>>
    IN  CASE f \in {"metadataErr", "loggerErr"} -> <<>>
          [] f = "tracingErr" -> <<"cancelFunc">> \o logger
          [] OTHER -> <<"teardown", "cancelFunc">> \o logger

\* The state when the initialisation of run() has ended: with an error (run()
\* returns it; the server and the goroutine of the group do not exist) or
\* with run() about to call ListenAndServe.
TracingInit ==
    \E e \in Entries : \E f \in InitResults(e) :
        /\ BinIdle
        /\ HdrIdle
        /\ defers = DefersAt(e, f)
        /\ ran = <<>>
        /\ tpCtx = "none"
        /\ runResult = IF f = "ok" THEN "none" ELSE f
        /\ mainPc = IF f = "ok" THEN "listen"
                    ELSE IF DefersAt(e, f) = <<>> THEN "returned" ELSE "unwind"
        /\ sdPc = IF f = "ok" THEN "recv" ELSE "none"
        /\ hookPc = IF f = "ok" /\ e = "demo" THEN "idle" ELSE "none"
        /\ lsResult = "none"
        /\ exited = FALSE
        /\ exitCode = 0
        /\ sdResult = "none"
        /\ groupErr = "none"
        /\ graceArmed = FALSE
        /\ graceElapsed = 0
        /\ pollDue = FALSE
        /\ sigChan = <<>>
        /\ o = "none"
        /\ rootCancelled = FALSE
        /\ groupCancelled = FALSE
        /\ inShutdown = FALSE
        /\ listener = "none"
        /\ lnerr = FALSE
        /\ req = EmptyBag
        /\ lastDone = "none"

\* cancelFunc: cancels ctx and the group's context; no request context
\* derives from them.
TrCancelFunc ==
    /\ rootCancelled' = TRUE
    /\ groupCancelled' = TRUE
    /\ req' = req

\* Shutdown begins: it starts the hook when one is registered.
TrShutdownBegin(closeFails) ==
    /\ ~exited
    /\ sdPc = "call"
    /\ graceArmed' = TRUE
    /\ graceElapsed' = 0
    /\ inShutdown' = TRUE
    /\ listener' = ListenerAfterShutdown
    /\ lnerr' = (closeFails /\ listener = "open")
    /\ hookPc' = IF hookPc = "idle" THEN "spawned" ELSE hookPc
    /\ sdPc' = "poll"
    /\ pollDue' = FALSE
    /\ req' = BagOfAll(MarkAtStop, req)
    /\ UNCHANGED <<sdResult, groupErr, mainVars, exitVars, sigVars, ctxVars, lastDone>>

TrOnShutdownHook ==
    /\ ~exited
    /\ hookPc = "spawned"
    /\ hookPc' = "done"
    /\ TrCancelFunc
    /\ UNCHANGED <<lastDone, mainVars, exitVars, sdVars, sigVars, srvVars>>

\* Shutdown returns res and the goroutine returns; on an error the errgroup
\* cancels its context.
TrSdReturn(res) ==
    /\ sdResult' = res
    /\ sdPc' = "done"
    /\ graceArmed' = FALSE
    /\ pollDue' = FALSE
    /\ groupErr' = IF res # "nil" THEN res ELSE groupErr
    /\ groupCancelled' = (groupCancelled \/ res # "nil")
    /\ UNCHANGED <<graceElapsed, rootCancelled, reqVars>>

TrSdPoll ==
    /\ ~exited
    /\ sdPc = "poll"
    /\ IF closeIdleConns /\ mainPc # "serving"
       THEN TrSdReturn(IF lnerr THEN "closeErr" ELSE "nil")
       ELSE /\ sdPc' = "sleep"
            /\ pollDue' = FALSE
            /\ UNCHANGED <<sdResult, groupErr, graceArmed, graceElapsed, ctxVars, reqVars>>
    /\ UNCHANGED <<mainVars, exitVars, hookPc, sigVars, srvVars>>

TrSdSelectDone ==
    /\ ~exited
    /\ sdPc = "sleep"
    /\ GraceDone
    /\ TrSdReturn(GraceErr)
    /\ UNCHANGED <<mainVars, exitVars, hookPc, sigVars, srvVars>>

\* run() returns result: its deferred calls start to run.
TrRunReturn(result) ==
    /\ runResult' = result
    /\ mainPc' = "unwind"

TrListenAndServe(bindFails) ==
    /\ ~exited
    /\ mainPc = "listen"
    /\ IF inShutdown
       THEN /\ lsResult' = "ErrServerClosed"
            /\ mainPc' = "wait"
            /\ UNCHANGED <<runResult, listener>>
       ELSE IF bindFails
            THEN /\ lsResult' = "bindErr"
                 /\ TrRunReturn("listenErr")
                 /\ UNCHANGED listener
            ELSE /\ lsResult' = "none"
                 /\ mainPc' = "serving"
                 /\ listener' = "open"
                 /\ UNCHANGED runResult
    /\ UNCHANGED <<inShutdown, lnerr, exitVars, sdVars, hookPc, sigVars, ctxVars, reqVars>>

\* The handler of a request as it starts: its context derives from
\* context.Background().
TrNewReq(h) ==
    [path |-> "handler", hangs |-> h, st |-> "downstream",
     cancelled |-> FALSE, status |-> 0, atStop |-> FALSE]

TrAccept(h) ==
    /\ ~exited
    /\ CanAccept
    /\ nReq < MaxReqs
    /\ req' = req (+) One(TrNewReq(h))
    /\ UNCHANGED lastDone
    /\ UNCHANGED <<mainVars, exitVars, sdVars, hookPc, sigVars, ctxVars, srvVars>>

TrAcceptError ==
    /\ ~exited
    /\ CanAccept
    /\ lsResult' = "acceptErr"
    /\ listener' = "closed"
    /\ TrRunReturn("listenErr")
    /\ UNCHANGED <<inShutdown, lnerr, exitVars, sdVars, hookPc, sigVars, ctxVars, reqVars>>

\* g.Wait() returns the group's error and cancels the group's context.
TrWait ==
    /\ ~exited
    /\ mainPc = "wait"
    /\ sdPc = "done"
    /\ TrRunReturn(WaitResult)
    /\ groupCancelled' = TRUE
    /\ UNCHANGED <<rootCancelled, lsResult, exitVars, sdVars, hookPc, sigVars, srvVars, reqVars>>

\* The next deferred call runs: the tracing teardown calls tp.Shutdown(ctx)
\* with the root context as it is then; cancelFunc cancels the root;
\* logger.Sync flushes the logger.  After the last one run() has returned.
TrRunDeferred ==
    /\ ~exited
    /\ mainPc = "unwind"
    /\ defers # <<>>
    /\ defers' = Tail(defers)
    /\ ran' = Append(ran, Head(defers))
    /\ tpCtx' = IF Head(defers) = "teardown"
                THEN (IF rootCancelled THEN "cancelled" ELSE "live")
                ELSE tpCtx
    /\ IF Head(defers) = "cancelFunc" THEN TrCancelFunc ELSE UNCHANGED <<ctxVars, req>>
    /\ mainPc' = IF Tail(defers) = <<>> THEN "returned" ELSE "unwind"
    /\ UNCHANGED <<lsResult, runResult, exited, exitCode, lastDone>>
    /\ UNCHANGED <<sdVars, hookPc, sigVars, srvVars, binVars, hdrVars>>

TracingNext ==
    \/ \E s \in Signals : Signal(s)
    \/ SdReceive
    \/ \E e \in BOOLEAN : TrShutdownBegin(e)
    \/ TrOnShutdownHook
    \/ TrSdPoll
    \/ TrSdSelectDone
    \/ SdSelectTimer
    \/ \E b \in BOOLEAN : TrListenAndServe(b)
    \/ \E h \in BOOLEAN : TrAccept(h)
    \/ TrAcceptError
    \/ ServeReturn
    \/ TrWait
    \/ TrRunDeferred
    \/ MainExit
    \/ \E r \in Reqs, ok \in BOOLEAN : DownstreamReturn(r, ok)
    \/ \E r \in Reqs : ClientDisconnect(r)
    \/ Tick

TracingSpec == TracingInit /\ [][TracingNext]_vars

\* ================================================ doHeavyProcessingConcurrent
\* binClient.doHeavyProcessingConcurrent (cmd/graceful/README.md): two calls
\* run in the goroutines of an errgroup; the second one hands its result to
\* the caller through the channel binChan.

\* make(chan *binJson, 1)
BinChanCap_unbuffered == 1 - 1

BinChanCap == 1

\* What i.httpClient.Do(req) gives makeCall: a response with status 200, a
\* response with another status, or an error (also when the context of the
\* request is cancelled).
DoResults == {"200", "status", "Do"}

\* The error a goroutine returns when its makeCall(url) failed with e.
GoError(url, e) ==
    CASE url = "delay/6" /\ e = "Do"     -> "i.makeCall(delay/6): i.httpClient.Do()"
      [] url = "delay/6" /\ e = "status" -> "i.makeCall(delay/6): bin non 200 status code"
      [] url = "delay/6" /\ e = "Decode" -> "i.makeCall(delay/6): json.NewDecoder()"
      [] url = "json" /\ e = "Do"        -> "i.makeCall(json): i.httpClient.Do()"
      [] url = "json" /\ e = "status"    -> "i.makeCall(json): bin non 200 status code"
      [] url = "json" /\ e = "Decode"    -> "i.makeCall(json): json.NewDecoder()"

\* g.Go records the first non-nil error of the group and cancels its context.
BinRecord(e) == IF bGroupErr = "none" THEN e ELSE bGroupErr

\* The function is called; the context it is given may be cancelled already.
BinInit ==
    /\ ServerStart
    /\ HdrIdle
    /\ bpc = "go1"
    /\ g1 = "none"
    /\ g2 = "none"
    /\ binChan = <<>>
    /\ bGroupErr = "none"
    /\ bParentDone \in BOOLEAN
    /\ bCtxDone = bParentDone
    /\ bVal = "none"
    /\ bErr = "none"

\* g.Go(func() error { ... makeCall(ctx, "delay/6", ...) ... })
BinGo1 ==
    /\ bpc = "go1"
    /\ bpc' = "go2"
    /\ g1' = "call"
    /\ UNCHANGED <<g2, binChan, bGroupErr, bCtxDone, bParentDone, bVal, bErr>>

\* g.Go(func() error { ... makeCall(ctx, "json", ...); binChan <- b ... })
BinGo2 ==
    /\ bpc = "go2"
    /\ bpc' = "wait"
    /\ g2' = "call"
    /\ UNCHANGED <<g1, binChan, bGroupErr, bCtxDone, bParentDone, bVal, bErr>>

\* makeCall(delay/6) in the first goroutine: i.httpClient.Do(req) returns an
\* error (the request failed or its context was cancelled), a response with a
\* status other than 200, or a response with status 200 whose body is decoded
\* next.  The goroutine returns the error of makeCall.
BinDo1(res) ==
    /\ g1 = "call"
    /\ IF res = "200"
       THEN /\ g1' = "decode"
            /\ UNCHANGED <<bGroupErr, bCtxDone>>
       ELSE /\ g1' = "err"
            /\ bGroupErr' = BinRecord(GoError("delay/6", res))
            /\ bCtxDone' = TRUE
    /\ UNCHANGED <<bpc, g2, binChan, bParentDone, bVal, bErr>>

\* json.NewDecoder(do.Body).Decode(responseData) in the first goroutine.
BinDecode1(ok) ==
    /\ g1 = "decode"
    /\ IF ok
       THEN /\ g1' = "ok"
            /\ UNCHANGED <<bGroupErr, bCtxDone>>
       ELSE /\ g1' = "err"
            /\ bGroupErr' = BinRecord(GoError("delay/6", "Decode"))
            /\ bCtxDone' = TRUE
    /\ UNCHANGED <<bpc, g2, binChan, bParentDone, bVal, bErr>>

\* makeCall(json) in the second goroutine.
BinDo2(res) ==
    /\ g2 = "call"
    /\ IF res = "200"
       THEN /\ g2' = "decode"
            /\ UNCHANGED <<bGroupErr, bCtxDone>>
       ELSE /\ g2' = "err"
            /\ bGroupErr' = BinRecord(GoError("json", res))
            /\ bCtxDone' = TRUE
    /\ UNCHANGED <<bpc, g1, binChan, bParentDone, bVal, bErr>>

\* The body is decoded in the second goroutine: on nil the goroutine goes on
\* to the send, on an error it returns the error.
BinDecode2(ok) ==
    /\ g2 = "decode"
    /\ IF ok
       THEN /\ g2' = "send"
            /\ UNCHANGED <<bGroupErr, bCtxDone>>
       ELSE /\ g2' = "err"
            /\ bGroupErr' = BinRecord(GoError("json", "Decode"))
            /\ bCtxDone' = TRUE
    /\ UNCHANGED <<bpc, g1, binChan, bParentDone, bVal, bErr>>

\* binChan <- b; return nil.  The send proceeds when the buffer has room.
BinSend ==
    /\ g2 = "send"
    /\ Len(binChan) < BinChanCap
    /\ binChan' = Append(binChan, "b")
    /\ g2' = "ok"
    /\ UNCHANGED <<bpc, g1, bGroupErr, bCtxDone, bParentDone, bVal, bErr>>

\* g.Wait() returns once both goroutines have returned, with the first error
\* recorded; on an error the function returns (nil, error).
BinWait ==
    /\ bpc = "wait"
    /\ g1 \in {"ok", "err"}
    /\ g2 \in {"ok", "err"}
    /\ bCtxDone' = TRUE
    /\ IF bGroupErr # "none"
       THEN /\ bpc' = "done"
            /\ bVal' = "nil"
            /\ bErr' = bGroupErr
       ELSE /\ bpc' = "recv"
            /\ UNCHANGED <<bVal, bErr>>
    /\ UNCHANGED <<g1, g2, binChan, bGroupErr, bParentDone>>

\* b := <-binChan; return b, nil
BinRecv ==
    /\ bpc = "recv"
    /\ binChan # <<>>
    /\ bVal' = Head(binChan)
    /\ binChan' = Tail(binChan)
    /\ bErr' = "nil"
    /\ bpc' = "done"
    /\ UNCHANGED <<g1, g2, bGroupErr, bCtxDone, bParentDone>>

\* The caller's context is cancelled while the function runs; the context of
\* the group is derived from it.
BinParentCancel ==
    /\ bpc \notin {"idle", "done"}
    /\ ~bParentDone
    /\ bParentDone' = TRUE
    /\ bCtxDone' = TRUE
    /\ UNCHANGED <<bpc, g1, g2, binChan, bGroupErr, bVal, bErr>>

BinStep ==
    /\ \/ BinGo1
       \/ BinGo2
       \/ \E res \in DoResults : BinDo1(res)
       \/ \E ok \in BOOLEAN : BinDecode1(ok)
       \/ \E res \in DoResults : BinDo2(res)
       \/ \E ok \in BOOLEAN : BinDecode2(ok)
       \/ BinSend
       \/ BinWait
       \/ BinRecv
    /\ UNCHANGED <<mainVars, sdVars, hookPc, sigVars, ctxVars, srvVars, reqVars>>
    /\ UNCHANGED <<exited, exitCode, defers, ran, tpCtx, hdrVars>>

BinCancel ==
    /\ BinParentCancel
    /\ UNCHANGED <<mainVars, sdVars, hookPc, sigVars, ctxVars, srvVars, reqVars>>
    /\ UNCHANGED <<exited, exitCode, defers, ran, tpCtx, hdrVars>>

BinNext ==
    \/ BinStep
    \/ BinCancel

\* The goroutines are scheduled and every call returns (the client has a
\* timeout).
BinSpec == BinInit /\ [][BinNext]_vars /\ WF_vars(BinStep)

\* =============================================== deconstructXCloudTraceContext
\* deconstructXCloudTraceContext (cmd/structuredlogging/structuredlogging.go)
\* takes the X-Cloud-Trace-Context header apart with the regular expression
\*     ([a-f\d]+)?(?:/([a-f\d]+))?(?:;o=(\d))?
\* A string is a sequence of one-character strings.

\* \d
Digits == {"0", "1", "2", "3", "4", "5", "6", "7", "8", "9"}

\* [a-f\d]
HexChars == {"a", "b", "c", "d", "e", "f"} \cup Digits

\* The headers that are parsed: at most MaxParts pieces, each a hexadecimal
\* letter, a digit, one of the separators, or a character of neither kind.
MaxParts == 5

Parts == {<<"a">>, <<"0">>, <<"1">>, <<"/">>, <<";", "o", "=">>, <<";">>, <<"o">>, <<"x">>}

RECURSIVE Flatten(_)
Flatten(ps) == IF ps = <<>> THEN <<>> ELSE Head(ps) \o Flatten(Tail(ps))

Headers == {Flatten(ps) : ps \in UNION {[1..n -> Parts] : n \in 0..MaxParts}}

\* [a-f\d]+ is greedy: the number of characters it takes from position i on.
RECURSIVE HexRun(_, _)
HexRun(s, i) ==
    IF i <= Len(s) /\ s[i] \in HexChars THEN 1 + HexRun(s, i + 1) ELSE 0

\* The submatches when the expression is matched from position i on: the
\* whole match and the three groups, a group that takes no part being "".
\* Every part is optional and is taken when it matches, so no choice is ever
\* undone and the expression matches at every position.
Submatch(s, i) ==
    LET n1 == HexRun(s, i)
        p2 == i + n1
        n2 == IF p2 <= Len(s) /\ s[p2] = "/" THEN HexRun(s, p2 + 1) ELSE 0
        p3 == IF n2 > 0 THEN p2 + 1 + n2 ELSE p2
        g3 == /\ p3 + 3 <= Len(s)
              /\ s[p3] = ";"
              /\ s[p3 + 1] = "o"
              /\ s[p3 + 2] = "="
              /\ s[p3 + 3] \in Digits
        end == IF g3 THEN p3 + 4 ELSE p3
    IN  << SubSeq(s, i, end - 1),
           SubSeq(s, i, p2 - 1),
           IF n2 > 0 THEN SubSeq(s, p2 + 1, p3 - 1) ELSE <<>>,
           IF g3 THEN <<s[p3 + 3]>> ELSE <<>> >>

MatchAt_traceRequired(s, i) ==
    IF HexRun(s, i) = 0 THEN <<>> ELSE Submatch(s, i)

\* The match of the expression at position i, <<>> when there is none.
MatchAt(s, i) == Submatch(s, i)

\* FindStringSubmatch: the submatches of the leftmost match, nil (<<>>) when
\* the expression matches nowhere.
FindStringSubmatch(s) ==
    LET at == {i \in 1..(Len(s) + 1) : MatchAt(s, i) # <<>>}
    IN  IF at = {}
        THEN <<>>
        ELSE MatchAt(s, CHOOSE i \in at : \A j \in at : i <= j)

\* matches[1], matches[2], matches[3] == "1"; a spanID of "0" becomes "".
Deconstructed(matches) ==
    [traceID      |-> matches[2],
     spanID       |-> IF matches[3] = <<"0">> THEN <<>> ELSE matches[3],
     traceSampled |-> matches[4] = <<"1">>]

\* info() has read the header and calls the function.
HdrInit ==
    /\ ServerStart
    /\ BinIdle
    /\ header \in Headers
    /\ hpc = "call"
    /\ parsed = NoParse

\* deconstructXCloudTraceContext(s): indexing a nil matches panics.
deconstructXCloudTraceContext ==
    /\ hpc = "call"
    /\ LET matches == FindStringSubmatch(header)
       IN  IF Len(matches) < 4
           THEN /\ hpc' = "panicked"
                /\ parsed' = parsed
           ELSE /\ hpc' = "returned"
                /\ parsed' = Deconstructed(matches)
    /\ UNCHANGED header
    /\ UNCHANGED <<mainVars, sdVars, hookPc, sigVars, ctxVars, srvVars, reqVars>>
    /\ UNCHANGED <<exited, exitCode, defers, ran, tpCtx, binVars>>

HdrNext == deconstructXCloudTraceContext

HdrSpec == HdrInit /\ [][HdrNext]_vars

\* ================================================================ claims

Active(r) == r.st = "downstream"

NoHandlerRunning == \A r \in Reqs : ~Active(r)

Cancelable(r) == r.path = "cancelablerequest"

NonCancelable(r) == r.path = "noncancelablerequest"

\* A handler blocked in a downstream call whose context is cancelled.
BlockedCancelled(r) == Active(r) /\ Cancelable(r) /\ r.cancelled

\* A /noncancelablerequest in flight at the shutdown whose downstream call
\* never returns.
Stuck(r) == r.atStop /\ NonCancelable(r) /\ r.hangs

\* The requests of bag B that satisfy P, and the handlers of B by path and
\* state.
Those(B, P(_)) == [r \in {x \in BagToSet(B) : P(x)} |-> B[r]]

PathAndState(r) == <<r.path, r.st>>

Handlers(B) == BagOfAll(PathAndState, B)

PathOf(r) == r.path

\* The handlers of B blocked in a downstream call that never returns by
\* itself, and those of them on /noncancelablerequest.
Hanging(r) == Active(r) /\ r.hangs

HangingNonCancelable(r) == Hanging(r) /\ NonCancelable(r)

NHanging(B) == BagCardinality(Those(B, Hanging))

NHangingNonCancelable(B) == BagCardinality(Those(B, HangingNonCancelable))

InShutdownCall == sdPc \in {"poll", "sleep"}

\* ListenAndServe has failed (run() returns that error without g.Wait()).
ListenFailed == lsResult \in {"bindErr", "acceptErr"}

\* The requests in flight when Shutdown was invoked are all on
\* /cancelablerequest.
OnlyCancelableAtStop == \A r \in Reqs : r.atStop => Cancelable(r)

C2_CancelBeforeOutcome ==
    sdPc = "done" =>
        /\ rootCancelled
        /\ \A r \in Reqs : r.cancelled

\* C3: cancelling the root cancels every request context derived from it
\* before; a handler whose downstream call never returns by itself finishes
\* only on /cancelablerequest, with its context cancelled and with status
\* 500; and a handler blocked in a downstream call made with a cancelled
\* request context returns (unless the process terminates first).
C3_CancellationPropagates ==
    /\ [][(~rootCancelled /\ rootCancelled') =>
            (nReq' = nReq /\ \A r \in BagToSet(req') : r.cancelled)]_vars
    /\ [][NHanging(req') < NHanging(req) =>
            \E r \in Reqs : /\ Hanging(r)
                             /\ BlockedCancelled(r)
                             /\ req' = Swap(r, Finished(r, 500))]_vars
    /\ (\E r \in Reqs : BlockedCancelled(r))
            ~> (exited \/ ~\E r \in Reqs : BlockedCancelled(r))

C3_Witness ==
    /\ rootCancelled
    /\ hookPc = "done"
    /\ mainPc # "returned"
    /\ \E r \in Reqs :
        /\ r.atStop
        /\ Cancelable(r)
        /\ r.st = "done"
        /\ r.status = 500

\* C4: when the requests in flight at the shutdown are /cancelablerequest
\* only (the listener closes without error and ListenAndServe has not
\* failed), Shutdown returns nil before the deadline with every handler
\* finished, run() returns nil, and the sequence does finish.
C4_CancelableDrainsCleanly ==
    /\ []((sdPc = "done" /\ OnlyCancelableAtStop /\ ~lnerr) =>
            /\ sdResult = "nil"
            /\ graceElapsed < ShutdownTimeout
            /\ NoHandlerRunning)
    /\ []((runResult # "none" /\ ~ListenFailed /\ OnlyCancelableAtStop /\ ~lnerr) =>
            runResult = "nil")
    /\ (inShutdown /\ ~ListenFailed /\ OnlyCancelableAtStop /\ ~lnerr)
            ~> (runResult = "nil")

C4_Witness ==
    /\ runResult = "nil"
    /\ nReq = 1
    /\ \E r \in Reqs : r.atStop /\ Cancelable(r) /\ r.status = 500

\* C5: a /noncancelablerequest handler is never ended by a cancellation (it
\* finishes only when its downstream call returns by itself); when Shutdown
\* has returned and such a handler from before the shutdown is still
\* running, Shutdown has returned deadline exceeded; and when the downstream
\* call outlasts the deadline (and ListenAndServe has not failed), run()
\* returns that error.
C5_NonCancelableTimesOut ==
    /\ [][NHangingNonCancelable(req') >= NHangingNonCancelable(req)]_vars
    /\ []((sdPc = "done" /\ \E r \in Reqs : r.atStop /\ NonCancelable(r) /\ Active(r)) =>
            (sdResult = "deadline" /\ groupErr = "deadline"))
    /\ []((runResult # "none" /\ ~ListenFailed /\ \E r \in Reqs : Stuck(r)) =>
            (runResult = "deadline" /\ rootCancelled /\ \A r \in Reqs : Stuck(r) => Active(r)))
    /\ (~ListenFailed /\ \E r \in Reqs : Stuck(r)) ~> (runResult = "deadline")

C5_Witness ==
    /\ runResult = "deadline"
    /\ \E r \in Reqs : Stuck(r) /\ Active(r) /\ r.cancelled

\* C6: with a handler that never completes, Shutdown returns deadline
\* exceeded; Shutdown returns while a handler is still running only when the
\* deadline has elapsed, and then with deadline exceeded, which is the error
\* the group records (TimedOut).
C6_DeadlineEnforced ==
    /\ [][(InShutdownCall /\ sdPc' = "done" /\ ~NoHandlerRunning) =>
            (graceElapsed >= ShutdownTimeout /\ sdResult' = "deadline"
                /\ groupErr' = "deadline")]_vars
    /\ [](sdResult = "deadline" => graceElapsed >= ShutdownTimeout)
    /\ []((sdPc = "done" /\ \E r \in Reqs : Stuck(r)) => sdResult = "deadline")

C6_Witness ==
    /\ sdResult = "deadline"
    /\ groupErr = "deadline"
    /\ graceElapsed = ShutdownTimeout
    /\ \E r \in Reqs : Stuck(r) /\ Active(r)

C8_DrainBeforeDeadline ==
    (sdPc = "done" /\ NoHandlerRunning /\ lastDone \in {"early", "late"} /\ ~lnerr) =>
        (sdResult = "nil" /\ graceElapsed < ShutdownTimeout)

\* C8 (amended): when every handler in flight at the shutdown has completed
\* at least one poll interval before the deadline (and the listener closed
\* without error), Shutdown returns nil strictly before the deadline and the
\* group records no error (Stopped); Shutdown returns nil only when no
\* handler is running.
C8_DrainWithMargin ==
    /\ []((sdPc = "done" /\ NoHandlerRunning /\ lastDone = "early" /\ ~lnerr) =>
            (sdResult = "nil" /\ graceElapsed < ShutdownTimeout /\ groupErr = "none"))
    /\ []((InShutdownCall /\ NoHandlerRunning /\ lastDone = "early") =>
            graceElapsed < ShutdownTimeout)
    /\ [][(sdResult = "none" /\ sdResult' = "nil") => NoHandlerRunning]_vars

C8_Witness ==
    /\ sdResult = "nil"
    /\ groupErr = "none"
    /\ lastDone = "early"
    /\ graceElapsed > 0
    /\ nReq = MaxReqs
    /\ \A r \in Reqs : r.atStop /\ r.st = "done"

C10_FreshDeadlineContext ==
    /\ [][(sdPc = "call" /\ sdPc' # "call") => (graceArmed' /\ ~GraceDone')]_vars
    /\ [][(InShutdownCall /\ sdPc' = "done") =>
            \/ (NoHandlerRunning /\ sdResult' \in {"nil", "closeErr"})
            \/ (graceElapsed = ShutdownTimeout /\ sdResult' = "deadline")]_vars
    /\ [](sdResult # "canceled")

C10_Witness ==
    /\ InShutdownCall
    /\ rootCancelled
    /\ groupCancelled
    /\ graceElapsed > 0
    /\ graceElapsed < ShutdownTimeout
    /\ ~NoHandlerRunning

\* The coordinator's state, read off run(): Running until a signal has been
\* received, Draining from then until run() returns, and then the outcome
\* run() returned: nil (Stopped), deadline exceeded (TimedOut), any other
\* error (Failed).
Outcome(result) ==
    CASE result = "nil" -> "Stopped"
      [] result = "deadline" -> "TimedOut"
      [] OTHER -> "Failed"

CoordState ==
    IF runResult # "none" THEN Outcome(runResult)
    ELSE IF o # "none" THEN "Draining"
    ELSE "Running"

Outcomes == {"Stopped", "TimedOut", "Failed"}

ChainEdges == ({"Running"} \X {"Draining"}) \cup ({"Draining"} \X Outcomes)

\* C11 (as stated): the coordinator's state changes only along
\* Running -> Draining -> {Stopped, TimedOut, Failed}.
C11_ChainOnly ==
    [][CoordState' # CoordState => <<CoordState, CoordState'>> \in ChainEdges]_vars

\* C11 (amended): the coordinator's state changes only along
\* Running -> Draining -> {Stopped, TimedOut, Failed}, or from Running to
\* Failed directly when ListenAndServe fails before any signal has been
\* received; no transition leaves an outcome state; Draining is entered only
\* by the receipt of a signal from the channel; and Shutdown produces at most
\* one drain outcome, which never changes.
C11_CoordinatorTransitions ==
    /\ [][CoordState' # CoordState =>
            \/ <<CoordState, CoordState'>> \in ChainEdges
            \/ (CoordState = "Running" /\ CoordState' = "Failed" /\ ListenFailed')]_vars
    /\ [][(CoordState \in Outcomes) => (CoordState' = CoordState)]_vars
    /\ [][(CoordState # "Draining" /\ CoordState' = "Draining") =>
            (sigChan # <<>> /\ o' = Head(sigChan) /\ o' \in Signals)]_vars
    /\ [][sdResult # "none" => (sdResult' = sdResult)]_vars
    /\ [](sdResult # "none" => o # "none")

C11_Witness ==
    /\ CoordState = "Failed"
    /\ o = "none"
    /\ sdPc = "recv"
    /\ lsResult = "acceptErr"

\* C12: run() returns nil exactly when ListenAndServe ended with
\* ErrServerClosed and the goroutine of the group (Shutdown) returned nil;
\* otherwise it returns the one error there is when it returns: the error of
\* ListenAndServe, or else the error of Shutdown, where deadline exceeded
\* (TimedOut) is a result different from every other error (Failed).
C12_RunResult ==
    /\ [](runResult # "none" =>
            /\ runResult = "nil" <=> (lsResult = "ErrServerClosed" /\ sdResult = "nil")
            /\ ListenFailed => runResult = "listenErr"
            /\ lsResult = "ErrServerClosed" => (sdPc = "done" /\ runResult = sdResult)
            /\ runResult = "deadline" <=> (lsResult = "ErrServerClosed" /\ sdResult = "deadline")
            /\ CoordState = "TimedOut" <=> runResult = "deadline"
            /\ CoordState = "Failed" <=> runResult \in {"listenErr", "closeErr", "canceled"})
    /\ [][(runResult = "none" /\ runResult' # "none") =>
            ~(ListenFailed' /\ groupErr' # "none")]_vars

C12_Witness ==
    /\ runResult = "closeErr"
    /\ lsResult = "ErrServerClosed"
    /\ sdResult = "closeErr"
    /\ CoordState = "Failed"

\* C13: when ListenAndServe has failed and run() has returned its error, the
\* goroutine waiting for a termination signal has been cancelled: it is no
\* longer blocked in the receive from the channel.
C13_SiblingCancelled ==
    (ListenFailed /\ mainPc = "returned") => sdPc # "recv"

\* C14: when ListenAndServe returns an error other than ErrServerClosed,
\* run() returns that error in the same step, whether or not a signal has
\* arrived: the step does not touch the server's shutdown state or the
\* goroutine of the group (it invokes no Shutdown), and as long as no signal
\* has been received no Shutdown is ever invoked.
C14_ListenErrorReturnsAtOnce ==
    /\ [][(~ListenFailed /\ ListenFailed') =>
            /\ runResult' = "listenErr"
            /\ mainPc' = "returned"
            /\ rootCancelled'
            /\ UNCHANGED <<sdVars, hookPc, inShutdown, sigVars>>]_vars
    /\ [](ListenFailed => (runResult = "listenErr" /\ mainPc = "returned"))
    /\ []((ListenFailed /\ o = "none") => (~inShutdown /\ sdResult = "none" /\ ~graceArmed))

C14_Witness ==
    /\ lsResult = "acceptErr"
    /\ runResult = "listenErr"
    /\ o = "none"
    /\ sigChan = <<>>
    /\ ~inShutdown
    /\ ~NoHandlerRunning

\* C15: when the process has terminated, its status is zero exactly when
\* run() returned nil (a clean drain) and non-zero for a timed-out drain, an
\* error of the stop or an error of the listener, and exactly one of the two
\* final lines has been logged: "server has shutdown gracefully" or the fatal
\* "run(): ..." line.
C15_ExitStatusAndOneLogLine ==
    exited =>
        /\ exitCode = 0 <=> CoordState = "Stopped"
        /\ exitCode # 0 <=> CoordState \in {"TimedOut", "Failed"}
        /\ LoggedGraceful # LoggedFatal

\* C16: once a termination signal has been received run() eventually
\* returns, whatever the handlers do; the call of Shutdown ends only with no
\* handler running or with the deadline elapsed, and once Shutdown has
\* returned the goroutine of the group is done for good.
C16_RunReturnsAfterSignal ==
    /\ (o # "none") ~> (runResult # "none")
    /\ [][(InShutdownCall /\ sdPc' = "done") =>
            (NoHandlerRunning \/ graceElapsed = ShutdownTimeout)]_vars
    /\ [][sdPc = "done" => sdPc' = "done"]_vars

C16_Witness ==
    /\ o # "none"
    /\ runResult # "none"
    /\ ~ListenFailed
    /\ nReq = MaxReqs
    /\ \A r \in Reqs : Hanging(r)

\* C17: Shutdown is called while the main goroutine is in ListenAndServe;
\* once Shutdown has closed the listener, ListenAndServe can return at once,
\* whatever the handlers are doing, and no time passes before it does; it
\* returns ErrServerClosed only when the server is shutting down, and the
\* main goroutine leaves ListenAndServe only with its result, going on to
\* g.Wait() exactly when that result is ErrServerClosed.
C17_ServeReturnsOnShutdown ==
    /\ []((mainPc = "serving" /\ listener = "closed" /\ ~exited) => ENABLED ServeReturn)
    /\ [][(mainPc = "serving" /\ listener = "closed") =>
            (graceElapsed' = graceElapsed /\ (pollDue' => pollDue))]_vars
    /\ [][(mainPc = "serving" /\ mainPc' # "serving") =>
            /\ lsResult' # "none"
            /\ Handlers(req') = Handlers(req)
            /\ (lsResult' = "ErrServerClosed") <=> (inShutdown /\ mainPc' = "wait")]_vars
    /\ [](mainPc = "wait" => (lsResult = "ErrServerClosed" /\ inShutdown))

C17_Witness ==
    /\ mainPc = "wait"
    /\ lsResult = "ErrServerClosed"
    /\ InShutdownCall
    /\ graceElapsed = 0
    /\ ~NoHandlerRunning

\* A step in which cancelFunc is invoked: the on-shutdown hook runs, or run()
\* returns and its deferred call runs.
CancelInvoked == (hookPc = "spawned" /\ hookPc' = "done") \/ (mainPc # "returned" /\ mainPc' = "returned")

\* C18: an invocation of cancelFunc when the root context is cancelled
\* already (the hook after the deferred call, or the deferred call after the
\* hook) changes nothing: the contexts and the requests are as they were
\* after the first invocation, and the step goes through (no panic).
C18_CancelIdempotent ==
    /\ [][(rootCancelled /\ CancelInvoked) =>
            /\ rootCancelled'
            /\ groupCancelled' = groupCancelled
            /\ req' = req]_vars
    /\ []((hookPc = "spawned" /\ ~exited) => ENABLED OnShutdownHook)
    /\ []((mainPc = "wait" /\ sdPc = "done" /\ ~exited) => ENABLED Wait)
    /\ []((hookPc = "done" \/ mainPc = "returned") => rootCancelled)

C18_Witness ==
    /\ hookPc = "done"
    /\ mainPc = "returned"
    /\ rootCancelled
    /\ ~exited
    /\ ~NoHandlerRunning

\* C19: a cancelled root context stays cancelled, and in every state with
\* the root cancelled the group's context derived from it and every request
\* context are cancelled too.
C19_CancelledForGood ==
    /\ [][rootCancelled => rootCancelled']_vars
    /\ [](rootCancelled => (groupCancelled /\ \A r \in Reqs : r.cancelled))

C19_Witness ==
    /\ rootCancelled
    /\ mainPc # "returned"
    /\ nReq = MaxReqs
    /\ \A r \in Reqs : Active(r) /\ NonCancelable(r) /\ r.cancelled

\* C20: the two signals are treated alike.  Either signal is delivered into
\* the channel in the same way, whichever signal is at the head of the
\* channel is received, and the receive does the same for both (it records
\* the signal in o, used for the log line only, and goes on to the call of
\* Shutdown); o never changes afterwards; and the call of Shutdown that
\* follows is the same call: the server starts shutting down under a fresh
\* deadline of ShutdownTimeout, whatever o is.
C20_SignalsAlike ==
    /\ [](~exited => \A s \in Signals : ENABLED Signal(s))
    /\ [][sigChan' # sigChan /\ o' = o =>
            /\ Len(sigChan) < ChanCap
            /\ \E s \in Signals : sigChan' = Append(sigChan, s)
            /\ UNCHANGED <<mainVars, exitVars, sdVars, hookPc, ctxVars, srvVars, reqVars>>]_vars
    /\ []((~exited /\ sdPc = "recv" /\ sigChan # <<>>) => ENABLED SdReceive)
    /\ [][o' # o =>
            /\ o = "none"
            /\ o' = Head(sigChan)
            /\ o' \in Signals
            /\ sigChan' = Tail(sigChan)
            /\ sdPc = "recv"
            /\ sdPc' = "call"
            /\ UNCHANGED <<sdResult, groupErr, graceArmed, graceElapsed, pollDue>>
            /\ UNCHANGED <<mainVars, exitVars, hookPc, ctxVars, srvVars, reqVars>>]_vars
    /\ []((~exited /\ sdPc = "call") => (o \in Signals /\ ENABLED SdShutdownBegin(FALSE)))
    /\ [][(sdPc = "call" /\ sdPc' # "call") =>
            /\ sdPc' = "poll"
            /\ inShutdown'
            /\ graceArmed'
            /\ graceElapsed' = 0
            /\ o' = o]_vars
    /\ [](sdPc # "recv" <=> o \in Signals)

C20_Witness ==
    /\ o = "interrupt"
    /\ sigChan = <<"terminated">>
    /\ sdResult = "deadline"
    /\ runResult = "deadline"

\* C21: the goroutine receives from the channel at most once and calls
\* Shutdown at most once: it never goes back to the receive or to the call,
\* graceFull's clock is never restarted, and a signal delivered once one has
\* been received stays in the channel (or is dropped) and changes nothing
\* else: neither the deadline nor the outcome.
C21_SignalConsumedOnce ==
    /\ [][sdPc # "recv" => (sdPc' # "recv" /\ o' = o /\ Len(sigChan') >= Len(sigChan))]_vars
    /\ [][(sdPc \in {"poll", "sleep", "done"}) => (sdPc' \in {"poll", "sleep", "done"})]_vars
    /\ [][inShutdown => (inShutdown' /\ graceElapsed' >= graceElapsed)]_vars
    /\ [][(o # "none" /\ sigChan' # sigChan) =>
            UNCHANGED <<o, mainVars, exitVars, sdVars, hookPc, ctxVars, srvVars, reqVars>>]_vars

C21_Witness ==
    /\ InShutdownCall
    /\ o # "none"
    /\ sigChan # <<>>
    /\ graceElapsed > 0
    /\ ~NoHandlerRunning

\* C22: as long as no signal has been received and run() has not returned,
\* neither the root context nor the base context of the requests is
\* cancelled, whatever the handlers and their downstream calls do; the
\* contexts change only in a step of the coordinator: the on-shutdown hook,
\* the return of the goroutine of the group, or the return of run().
C22_OnlyCoordinatorCancels ==
    /\ []((o = "none" /\ mainPc # "returned") => (~rootCancelled /\ ~groupCancelled))
    /\ [][ctxVars' # ctxVars =>
            \/ (hookPc = "spawned" /\ hookPc' = "done")
            \/ (sdPc # "done" /\ sdPc' = "done")
            \/ (mainPc # "returned" /\ mainPc' = "returned")]_vars

C22_Witness ==
    /\ o = "none"
    /\ mainPc = "serving"
    /\ ~rootCancelled
    /\ ~groupCancelled
    /\ \E r \in Reqs : r.st = "done" /\ r.status = 500
    /\ \E r \in Reqs : Active(r) /\ r.cancelled

IsDone(r) == r.st = "done"

NDone(B) == BagCardinality(Those(B, IsDone))

\* C23: a handler ends with a response of its own, 200 or 500, and the step
\* in which it ends changes nothing of the coordinator (the group's error,
\* the goroutines, the contexts, the server); the group's error is never
\* anything but an error of Shutdown, and what run() returns is determined
\* by the results of ListenAndServe and Shutdown alone.
C23_HandlerErrorsStayLocal ==
    /\ [][NDone(req') > NDone(req) =>
            UNCHANGED <<mainVars, exitVars, sdVars, hookPc, sigVars, ctxVars, srvVars>>]_vars
    /\ [](\A r \in Reqs : IsDone(r) => r.status \in {200, 500})
    /\ [](groupErr \in {"none", sdResult})
    /\ [](runResult # "none" =>
            runResult = IF ListenFailed THEN "listenErr" ELSE sdResult)

C23_Witness ==
    /\ runResult = "nil"
    /\ groupErr = "none"
    /\ \E r \in Reqs : IsDone(r) /\ r.status = 500 /\ NonCancelable(r)
    /\ \E r \in Reqs : IsDone(r) /\ r.status = 500 /\ Cancelable(r)

\* C24: the entry points implement one protocol: the request contexts derive
\* from the root context (when the root is cancelled every request context
\* is), and a received signal cancels the root as part of the shutdown
\* sequence (when Shutdown has given up at its deadline, nine seconds after
\* it was called, the root is cancelled).
C24_SameProtocol ==
    /\ rootCancelled => \A r \in Reqs : r.cancelled
    /\ sdResult = "deadline" => rootCancelled

InRan(d) == \E i \in 1..Len(ran) : ran[i] = d

\* C25: when the process has terminated, the cleanup of everything run() had
\* acquired has run: the root context (created once the logger is built) is
\* cancelled and the logger is synced, and when the tracing was set up its
\* teardown has been executed.
C25_CleanupOnEveryExit ==
    exited =>
        /\ runResult \notin {"metadataErr", "loggerErr"} =>
                (rootCancelled /\ InRan("cancelFunc") /\ InRan("Sync"))
        /\ runResult \notin {"metadataErr", "loggerErr", "tracingErr"} =>
                (InRan("teardown") /\ tpCtx # "none")

\* C28: the tracing teardown never finds the root context cancelled: when
\* tp.Shutdown(ctx) is invoked the root context is still live.
C28_TeardownBeforeCancel ==
    tpCtx # "cancelled"

\* C26: on the signal path (ListenAndServe ended with ErrServerClosed) run()
\* has returned, and the process has terminated, only when Shutdown has
\* returned: the main goroutine stays in g.Wait(), which cannot return, as
\* long as the goroutine of the group is still in the drain.
C26_WaitsForDrain ==
    /\ []((runResult # "none" /\ ~ListenFailed) =>
            (lsResult = "ErrServerClosed" /\ sdPc = "done" /\ sdResult # "none"))
    /\ []((exited /\ ~ListenFailed) => sdPc = "done")
    /\ []((mainPc = "wait" /\ sdPc # "done") => ~ENABLED Wait)
    /\ [][(mainPc = "wait" /\ sdPc # "done") => mainPc' = "wait"]_vars

C26_Witness ==
    /\ mainPc = "wait"
    /\ lsResult = "ErrServerClosed"
    /\ sdPc = "sleep"
    /\ graceElapsed > 1
    /\ runResult = "none"

\* A signal has been delivered and not been lost: it is in the channel or
\* has been received.
SignalPending == sigChan # <<>> \/ o # "none"

\* C27 (as stated): when a signal has been delivered before ListenAndServe
\* is entered, ListenAndServe returns ErrServerClosed (it does not start to
\* accept).
C27_EarlySignalNoDispatch ==
    [][(mainPc = "listen" /\ SignalPending /\ mainPc' # "listen") =>
            lsResult' = "ErrServerClosed"]_vars

\* C27 (amended): a signal delivered before ListenAndServe is entered is not
\* lost: it is kept in the channel until the goroutine receives it, and
\* run() returns in the end.  When the goroutine has called Shutdown before
\* ListenAndServe is entered, ListenAndServe returns ErrServerClosed without
\* opening a listener or dispatching a request, Shutdown returns nil and
\* run() returns nil.  (Otherwise the server starts to accept and the signal
\* leads to an ordinary drain.)
C27_EarlySignalNotLost ==
    /\ [][(sigChan = <<>> /\ o = "none" /\ sigChan' # sigChan) => Len(sigChan') = 1]_vars
    /\ []((sigChan # <<>> /\ sdPc = "recv" /\ ~exited) => ENABLED SdReceive)
    /\ SignalPending ~> (runResult # "none")
    /\ [][(mainPc = "listen" /\ inShutdown /\ mainPc' # "listen") =>
            /\ lsResult' = "ErrServerClosed"
            /\ mainPc' = "wait"
            /\ listener' = "none"
            /\ req' = EmptyBag]_vars
    /\ []((inShutdown /\ listener = "none" /\ ~ListenFailed) =>
            /\ nReq = 0
            /\ sdResult \in {"none", "nil"}
            /\ runResult \in {"none", "nil"})

C27_Witness ==
    /\ runResult = "nil"
    /\ lsResult = "ErrServerClosed"
    /\ listener = "none"
    /\ nReq = 0
    /\ o # "none"

\* ---------------------------------------------------------------- C29
\* C29: doHeavyProcessingConcurrent never deadlocks, whatever its two calls
\* return: when the second goroutine is at the send on binChan the send can
\* proceed; the receive after g.Wait() is reached only with a value in the
\* channel; the function always returns, with a non-nil result and a nil
\* error exactly when both calls succeeded, and otherwise with a nil result
\* and the error the group recorded first, which later errors never replace.
C29_NeverDeadlocks ==
    /\ [](g2 = "send" => ENABLED BinSend)
    /\ [](bpc = "recv" => Len(binChan) = 1)
    /\ [](bpc = "done" =>
            /\ (bVal = "b") <=> (g1 = "ok" /\ g2 = "ok")
            /\ (bVal = "b") => (bErr = "nil")
            /\ (bVal # "b") => (bVal = "nil" /\ bErr # "nil" /\ bErr = bGroupErr))
    /\ [][(bGroupErr # "none") => (bGroupErr' = bGroupErr)]_vars
    /\ <>(bpc = "done")

\* Both calls succeeded and the function returned the value it received.
C29_Witness == bpc = "done" /\ bVal = "b" /\ bErr = "nil" /\ binChan = <<>>

\* ---------------------------------------------------------------- C30
\* The components of a header as the format TRACE_ID/SPAN_ID;o=TRACE_TRUE
\* places them, each one optional: the hexadecimal characters the header
\* starts with, the hexadecimal characters after a "/" that follows them, and
\* the digit after a ";o=" that follows those.
IsHexStr(t) == \A k \in 1..Len(t) : t[k] \in HexChars

Drop(s, n) == SubSeq(s, n + 1, Len(s))

HexPrefix(s) ==
    CHOOSE t \in {SubSeq(s, 1, n) : n \in 0..Len(s)} :
        /\ IsHexStr(t)
        /\ Len(t) < Len(s) => s[Len(t) + 1] \notin HexChars

TraceOf(h) == HexPrefix(h)

AfterTrace(h) == Drop(h, Len(TraceOf(h)))

SpanOf(h) ==
    IF AfterTrace(h) # <<>> /\ Head(AfterTrace(h)) = "/"
    THEN HexPrefix(Tail(AfterTrace(h)))
    ELSE <<>>

AfterSpan(h) ==
    IF SpanOf(h) = <<>> THEN AfterTrace(h) ELSE Drop(AfterTrace(h), 1 + Len(SpanOf(h)))

FlagOf(h) ==
    IF /\ Len(AfterSpan(h)) >= 4
       /\ SubSeq(AfterSpan(h), 1, 3) = <<";", "o", "=">>
       /\ AfterSpan(h)[4] \in Digits
    THEN <<AfterSpan(h)[4]>>
    ELSE <<>>

\* C30: deconstructXCloudTraceContext is total: for every header, the empty
\* one and those that do not follow TRACE_ID/SPAN_ID;o=TRACE_TRUE included, it
\* returns and never panics; a component the header does not have is returned
\* as "" (false for traceSampled), a span id of "0" is returned as "", and
\* traceSampled is true exactly when the digit after ";o=" is 1.
C30_Total ==
    /\ hpc # "panicked"
    /\ hpc = "returned" =>
        /\ parsed.traceID = TraceOf(header)
        /\ parsed.spanID = (IF SpanOf(header) = <<"0">> THEN <<>> ELSE SpanOf(header))
        /\ parsed.traceSampled <=> (FlagOf(header) = <<"1">>)
        /\ (SpanOf(header) = <<>> /\ FlagOf(header) = <<>>) =>
              (parsed.spanID = <<>> /\ ~parsed.traceSampled)

\* The header "a/0;o=1" is parsed: trace "a", span "" for "0", sampled.
C30_Witness ==
    /\ hpc = "returned"
    /\ header = <<"a", "/", "0", ";", "o", "=", "1">>
    /\ parsed = [traceID |-> <<"a">>, spanID |-> <<>>, traceSampled |-> TRUE]

====
